---------------------------- MODULE Spec2Model ----------------------------
(***************************************************************************)
(* Time-accounting engine of the punch clock (src/utils/timeUtils.ts):     *)
(* calculateDailyHours, calculateMonthlyStats and groupRecordsByDay,       *)
(* modelled as operators over arrays of punch records, and called by a     *)
(* caller that owns one array; and the App component                       *)
(* (src/services/geminiService.ts): the handlers that build that array,    *)
(* ask for the AI summary of it and export it, the effects that load and   *)
(* save the profiles in localStorage, and the reminders of the clock.      *)
(*                                                                         *)
(* Timestamps are epoch milliseconds.  The arrays drawn here hold whole    *)
(* minutes only, so every quotient by 60000 the code takes is an exact     *)
(* integer, as it is in the double arithmetic of the code.  The local      *)
(* time zone of the device is taken to be UTC.                             *)
(***************************************************************************)
EXTENDS Integers, Sequences, FiniteSets, TLC

VARIABLES
    records,    \* the caller's array of punch records
    op,         \* the aggregator called last: "none", "daily", "monthly", "group"
    args,       \* the other arguments of that call
    result,     \* what that call returned
    again,      \* TRUE when that call repeated the call before it
    first,      \* what the call before it returned, when again
    now,        \* the device clock, Date.now()
    aiReview,   \* the review on display: Null or a text
    isLoadingAI,\* the generate button is disabled while TRUE
    promise,    \* the promise the last getAIReview call returned
    inFlight,   \* outbound requests sent and not yet answered
    sent,       \* outbound requests sent so far
    profiles,       \* the profile list: [id, name] in order of creation
    currentUserId,  \* the id of the active profile, NoUser before the start-up
    settings,       \* the settings in memory
    localStorage,   \* the browser's store: key |-> blob
    queued,         \* state updates an effect asked for, applied by the next render
    deps,           \* the dependencies each effect ran with last
    currentTime,            \* the time the clock face shows
    lastNotificationTimeRef,\* the HH:MM of the last reminder: Null or a text
    permission,             \* Notification.permission
    notified                \* when the last notification was shown: Null or Num(ts)

appVars == <<now, aiReview, isLoadingAI, promise, inFlight, sent>>

storeVars == <<profiles, currentUserId, settings, localStorage, queued, deps>>

timerVars == <<currentTime, lastNotificationTimeRef, permission, notified>>

vars == <<records, op, args, result, again, first,
          now, aiReview, isLoadingAI, promise, inFlight, sent,
          profiles, currentUserId, settings, localStorage, queued, deps,
          currentTime, lastNotificationTimeRef, permission, notified>>

-----------------------------------------------------------------------------
(* Bounds of the arrays drawn as inputs *)

\* longest one-day array handed to calculateDailyHours
MaxLen == 4
\* latest minute of the day a record of a one-day array may carry (1..MaxT)
MaxT == 4
\* longest array of a profile handed to the aggregators
MaxAggLen == 4
\* longest array of a profile handed to groupRecordsByDay over the calendar
MaxRowLen == 2
\* most records a profile of the App collects
MaxRecords == 2
\* latest millisecond the device clock reaches
MaxNow == 2
\* most outbound requests the App sends
MaxSent == 2

-----------------------------------------------------------------------------
(* types.ts *)

ENTRY == "ENTRADA"
BREAK_START == "INICIO PAUSA"
BREAK_END == "FIM PAUSA"
EXIT == "SAIDA"

PunchType == {ENTRY, BREAK_START, BREAK_END, EXIT}

\* a type string outside the enum (calculateDailyHours takes any[])
UnknownType == "OUTRO"

\* number | null : <<>> is null, <<n>> the number n
Null == <<>>
Num(n) == <<n>>

\* JavaScript truthiness of a number | null, as tested by `if (entryTime)`
Truthy(v) == v # Null /\ v[1] # 0

MsPerMinute == 60000
MsPerDay == 24 * 60 * MsPerMinute

-----------------------------------------------------------------------------
(* Array.prototype.sort: stable, in place *)

\* the comparator written the other way round: (a, b) => b.timestamp - a.timestamp
compareNewestFirst(a, b) == b.timestamp - a.timestamp

\* the comparator (a, b) => a.timestamp - b.timestamp
compareAsc(a, b) == a.timestamp - b.timestamp

\* r goes behind every element that does not compare greater than it
InsertStable(s, r) ==
    LET k == Cardinality({i \in 1..Len(s) : compareAsc(s[i], r) <= 0})
    IN  SubSeq(s, 1, k) \o <<r>> \o SubSeq(s, k + 1, Len(s))

RECURSIVE sortFrom(_, _)
sortFrom(done, rest) ==
    IF rest = <<>> THEN done
    ELSE sortFrom(InsertStable(done, Head(rest)), Tail(rest))

\* the array turned round instead of sorted: records.reverse()
reverseOnly(s) == [i \in 1..Len(s) |-> s[Len(s) + 1 - i]]

\* records.sort((a, b) => a.timestamp - b.timestamp)
sortAsc(s) == sortFrom(<<>>, s)

-----------------------------------------------------------------------------
(* calculateDailyHours *)

DailyStart ==
    [totalMinutes |-> 0, breakMinutes |-> 0,
     entryTime |-> Null, breakStartTime |-> Null]

\* (record.timestamp - since) / 60000
minutesSince(since, timestamp) == (timestamp - since) \div MsPerMinute

\* an ENTRY that keeps an entry already open
onEntryKeepFirst(st, timestamp) ==
    IF Truthy(st.entryTime) THEN st ELSE [st EXCEPT !.entryTime = Num(timestamp)]

\* an ENTRY that closes an entry already open into the total
onEntryClosing(st, timestamp) ==
    IF Truthy(st.entryTime)
    THEN [st EXCEPT
            !.totalMinutes = @ + minutesSince(st.entryTime[1], timestamp),
            !.entryTime = Num(timestamp)]
    ELSE [st EXCEPT !.entryTime = Num(timestamp)]

\* case 'ENTRADA'
onEntry(st, timestamp) == [st EXCEPT !.entryTime = Num(timestamp)]

\* a BREAK_START that adds the open work interval and leaves it open
onBreakStartKeepsEntry(st, timestamp) ==
    IF Truthy(st.entryTime)
    THEN [st EXCEPT
            !.breakStartTime = Num(timestamp),
            !.totalMinutes = @ + minutesSince(st.entryTime[1], timestamp)]
    ELSE [st EXCEPT !.breakStartTime = Num(timestamp)]

\* case 'INÍCIO PAUSA'
onBreakStart(st, timestamp) ==
    IF Truthy(st.entryTime)
    THEN [st EXCEPT
            !.breakStartTime = Num(timestamp),
            !.totalMinutes = @ + minutesSince(st.entryTime[1], timestamp),
            !.entryTime = Null]
    ELSE [st EXCEPT !.breakStartTime = Num(timestamp)]

\* a BREAK_END that does not resume work
onBreakEndNoResume(st, timestamp) ==
    IF Truthy(st.breakStartTime)
    THEN [st EXCEPT
            !.breakMinutes = @ + minutesSince(st.breakStartTime[1], timestamp),
            !.breakStartTime = Null]
    ELSE st

\* case 'FIM PAUSA'
onBreakEnd(st, timestamp) ==
    IF Truthy(st.breakStartTime)
    THEN [st EXCEPT
            !.breakMinutes = @ + minutesSince(st.breakStartTime[1], timestamp),
            !.breakStartTime = Null,
            !.entryTime = Num(timestamp)]
    ELSE [st EXCEPT !.entryTime = Num(timestamp)]

\* an EXIT that also closes an open break into the break minutes
onExitClosingBreak(st, timestamp) ==
    LET closed ==
            IF Truthy(st.breakStartTime)
            THEN [st EXCEPT
                    !.breakMinutes = @ + minutesSince(st.breakStartTime[1], timestamp),
                    !.breakStartTime = Null]
            ELSE st
    IN  IF Truthy(closed.entryTime)
        THEN [closed EXCEPT
                !.totalMinutes = @ + minutesSince(closed.entryTime[1], timestamp),
                !.entryTime = Null]
        ELSE closed

\* case 'SAÍDA'
onExit(st, timestamp) ==
    IF Truthy(st.entryTime)
    THEN [st EXCEPT
            !.totalMinutes = @ + minutesSince(st.entryTime[1], timestamp),
            !.entryTime = Null]
    ELSE st

\* the switch with `default:` on its last case, so that any other type acts as SAÍDA
DailyStepDefaultExit(st, record) ==
    CASE record.type = ENTRY -> onEntry(st, record.timestamp)
      [] record.type = BREAK_START -> onBreakStart(st, record.timestamp)
      [] record.type = BREAK_END -> onBreakEnd(st, record.timestamp)
      [] OTHER -> onExit(st, record.timestamp)

\* the body of the forEach callback: the switch on record.type, which has no
\* default case
DailyStep(st, record) ==
    CASE record.type = ENTRY -> onEntry(st, record.timestamp)
      [] record.type = BREAK_START -> onBreakStart(st, record.timestamp)
      [] record.type = BREAK_END -> onBreakEnd(st, record.timestamp)
      [] record.type = EXIT -> onExit(st, record.timestamp)
      [] OTHER -> st

RECURSIVE DailyWalk(_, _)
DailyWalk(st, s) ==
    IF s = <<>> THEN st ELSE DailyWalk(DailyStep(st, Head(s)), Tail(s))

\* the value calculateDailyHours returns
calculateDailyHours(rs) ==
    IF Len(rs) = 0 THEN [total |-> 0, break |-> 0]
    ELSE LET st == DailyWalk(DailyStart, sortAsc(rs))
         IN  [total |-> st.totalMinutes, break |-> st.breakMinutes]

\* the array the caller holds once calculateDailyHours has returned
dailyHoursArray(rs) == IF Len(rs) = 0 THEN rs ELSE sortAsc(rs)

-----------------------------------------------------------------------------
(* Date: the local calendar fields of an epoch-millisecond timestamp *)

\* whole days since 1 January 1970 (floor, also before the epoch)
EpochDay(ts) == ts \div MsPerDay

\* the proleptic Gregorian calendar date of epoch day z
CivilFromDays(z) ==
    LET zz == z + 719468
        era == zz \div 146097
        doe == zz - era * 146097
        yoe == (doe - doe \div 1460 + doe \div 36524 - doe \div 146096) \div 365
        doy == doe - (365 * yoe + yoe \div 4 - yoe \div 100)
        mp == (5 * doy + 2) \div 153
        d == doy - (153 * mp + 2) \div 5 + 1
        m == IF mp < 10 THEN mp + 3 ELSE mp - 9
        y == yoe + era * 400 + (IF m <= 2 THEN 1 ELSE 0)
    IN  [year |-> y, month |-> m - 1, date |-> d]

\* the epoch day of year y, month m (0-based, any integer), day d (any integer),
\* as new Date(y, m, d) normalises its fields
DaysFromCivil(y, m, d) ==
    LET yn == y + m \div 12
        mn == (m % 12) + 1
        ya == IF mn <= 2 THEN yn - 1 ELSE yn
        era == ya \div 400
        yoe == ya - era * 400
        mp == IF mn > 2 THEN mn - 3 ELSE mn + 9
        doy == (153 * mp + 2) \div 5
        doe == yoe * 365 + yoe \div 4 - yoe \div 100 + doy
    IN  era * 146097 + doe - 719468 + (d - 1)

\* the dates of the days a 32-bit millisecond count can name, computed once
EpochDays == (0 - 32)..32
CivilOfDay == [z \in EpochDays |-> CivilFromDays(z)]

getFullYear(ts) == CivilOfDay[EpochDay(ts)].year
getMonth(ts) == CivilOfDay[EpochDay(ts)].month
getDate(ts) == CivilOfDay[EpochDay(ts)].date
getHours(ts) == (ts % MsPerDay) \div (60 * MsPerMinute)
getMinutes(ts) == ((ts % MsPerDay) \div MsPerMinute) % 60

\* the text of a date names its day, month and year
dateText(z) ==
    LET c == IF z \in EpochDays THEN CivilOfDay[z] ELSE CivilFromDays(z)
    IN  <<c.date, c.month + 1, c.year>>

\* new Date(ts).toLocaleDateString()
toLocaleDateString(ts) == dateText(EpochDay(ts))

\* toLocaleTimeString('pt-BR', {hour: '2-digit', minute: '2-digit'}): "HH:MM"
toLocaleTimeHM(ts) == <<getHours(ts), getMinutes(ts)>>

\* the empty string of an absent cell
EmptyCell == <<>>

-----------------------------------------------------------------------------
(* minutesToReadable *)

Abs(n) == IF n < 0 THEN 0 - n ELSE n

\* `${sign}${hours}h ${minutes}m`
minutesToReadable(totalMinutes) ==
    [sign |-> IF totalMinutes < 0 THEN "-" ELSE "",
     hours |-> Abs(totalMinutes) \div 60,
     minutes |-> Abs(totalMinutes) % 60]

-----------------------------------------------------------------------------
(* calculateMonthlyStats *)

\* records.filter(r => month and year of r are the target's)
monthRecordsOf(rs, targetMonth, targetYear) ==
    SelectSeq(rs, LAMBDA r : getMonth(r.timestamp) = targetMonth
                             /\ getFullYear(r.timestamp) = targetYear)

\* the keys of `days` in the order they were first assigned
RECURSIVE dayKeysFrom(_, _)
dayKeysFrom(keys, rest) ==
    IF rest = <<>> THEN keys
    ELSE LET dayKey == toLocaleDateString(Head(rest).timestamp)
         IN  IF \E i \in 1..Len(keys) : keys[i] = dayKey
             THEN dayKeysFrom(keys, Tail(rest))
             ELSE dayKeysFrom(Append(keys, dayKey), Tail(rest))

\* the records bucketed by the month and year of the key instead of its date
dayGroupOfMonth(rs, dayKey) ==
    SelectSeq(rs, LAMBDA r : /\ toLocaleDateString(r.timestamp)[2] = dayKey[2]
                             /\ toLocaleDateString(r.timestamp)[3] = dayKey[3])

\* days[dayKey]: the records pushed under that key, in array order
dayGroup(rs, dayKey) ==
    SelectSeq(rs, LAMBDA r : toLocaleDateString(r.timestamp) = dayKey)

MonthlyStart == [totalWorked |-> 0, totalBreak |-> 0, daysWorkedCount |-> 0]

\* the forEach body counting every day that has a record as worked
MonthlyStepEveryDay(acc, dayRecords) ==
    LET stats == calculateDailyHours(dayRecords)
    IN  [totalWorked |-> acc.totalWorked + stats.total,
         totalBreak |-> acc.totalBreak + stats.break,
         daysWorkedCount |-> acc.daysWorkedCount + 1]

\* the forEach body counting a day as worked when it has work or break minutes
MonthlyStepBreakCounts(acc, dayRecords) ==
    LET stats == calculateDailyHours(dayRecords)
    IN  [totalWorked |-> acc.totalWorked + stats.total,
         totalBreak |-> acc.totalBreak + stats.break,
         daysWorkedCount |->
            IF stats.total + stats.break > 0
            THEN acc.daysWorkedCount + 1 ELSE acc.daysWorkedCount]

\* the body of Object.values(days).forEach
MonthlyStep(acc, dayRecords) ==
    LET stats == calculateDailyHours(dayRecords)
    IN  [totalWorked |-> acc.totalWorked + stats.total,
         totalBreak |-> acc.totalBreak + stats.break,
         daysWorkedCount |->
            IF stats.total > 0 THEN acc.daysWorkedCount + 1 ELSE acc.daysWorkedCount]

RECURSIVE MonthlyWalk(_, _, _)
MonthlyWalk(acc, rs, keys) ==
    IF keys = <<>> THEN acc
    ELSE MonthlyWalk(MonthlyStep(acc, dayGroup(rs, Head(keys))), rs, Tail(keys))

\* Balance calculation: Total Worked - (Days Worked * Daily Goal)
balanceOf(totalWorked, daysWorkedCount, dailyWorkload) ==
    totalWorked - (daysWorkedCount * dailyWorkload)

calculateMonthlyStats(rs, currentMonthDate, dailyWorkload) ==
    LET monthRecords ==
            monthRecordsOf(rs, getMonth(currentMonthDate), getFullYear(currentMonthDate))
        acc == MonthlyWalk(MonthlyStart, monthRecords, dayKeysFrom(<<>>, monthRecords))
    IN  [totalWorked |-> acc.totalWorked,
         totalBreak |-> acc.totalBreak,
         balance |-> balanceOf(acc.totalWorked, acc.daysWorkedCount, dailyWorkload),
         daysWorkedCount |-> acc.daysWorkedCount]

-----------------------------------------------------------------------------
(* groupRecordsByDay *)

\* new Date(targetYear, targetMonth, 0).getDate(): the length of the month before
daysInMonthBefore(targetMonth, targetYear) ==
    CivilFromDays(DaysFromCivil(targetYear, targetMonth, 0)).date

\* new Date(targetYear, targetMonth + 1, 0).getDate()
daysInMonth(targetMonth, targetYear) ==
    CivilFromDays(DaysFromCivil(targetYear, targetMonth + 1, 0)).date

\* the filter testing the day of the month alone
dayRecordsOfAnyMonth(rs, i, targetMonth, targetYear) ==
    SelectSeq(rs, LAMBDA r : getDate(r.timestamp) = i)

\* records.filter(r => day, month and year of r are i and the target's)
dayRecordsOf(rs, i, targetMonth, targetYear) ==
    SelectSeq(rs, LAMBDA r : getDate(r.timestamp) = i
                             /\ getMonth(r.timestamp) = targetMonth
                             /\ getFullYear(r.timestamp) = targetYear)

\* the last record of the type instead of the first
lastOfType(dayRecords, type) ==
    LET hits == {k \in 1..Len(dayRecords) : dayRecords[k].type = type}
    IN  IF hits = {} THEN EmptyCell
        ELSE toLocaleTimeHM(
                dayRecords[CHOOSE k \in hits : \A j \in hits : j <= k].timestamp)

\* dayRecords.find(r => r.type === type), formatted, or the empty cell
firstOfType(dayRecords, type) ==
    LET hits == {k \in 1..Len(dayRecords) : dayRecords[k].type = type}
    IN  IF hits = {} THEN EmptyCell
        ELSE toLocaleTimeHM(
                dayRecords[CHOOSE k \in hits : \A j \in hits : k <= j].timestamp)

\* the row pushed for day i, dayDate being the epoch day of
\* new Date(targetYear, targetMonth, i)
dayRow(rs, i, targetMonth, targetYear, dayDate) ==
    LET dayRecords == sortAsc(dayRecordsOf(rs, i, targetMonth, targetYear))
        stats == calculateDailyHours(dayRecords)
    IN  [day |-> i,
         dateFull |-> dateText(dayDate),
         entrada |-> firstOfType(dayRecords, ENTRY),
         almocoSaida |-> firstOfType(dayRecords, BREAK_START),
         almocoVolta |-> firstOfType(dayRecords, BREAK_END),
         saida |-> firstOfType(dayRecords, EXIT),
         totalHoras |-> minutesToReadable(stats.total)]

groupRecordsByDay(rs, targetMonth, targetYear) ==
    LET firstDate == DaysFromCivil(targetYear, targetMonth, 1)
    IN  [i \in 1..daysInMonth(targetMonth, targetYear) |->
            dayRow(rs, i, targetMonth, targetYear, firstDate + (i - 1))]

-----------------------------------------------------------------------------
(* Inputs *)

\* the array as the caller built it from the <<timestamp, type>> pairs of s:
\* object i of the array has id i
WithIds(s, n) ==
    [i \in 1..n |-> [id |-> i, timestamp |-> s[i][1], type |-> s[i][2]]]

\* minute m (from midnight) of 1 January 1970
DayStamp(m) == m * MsPerMinute

DayStamps == {DayStamp(m) : m \in 1..MaxT}

\* one-day arrays of n records in any order, duplicate types included, no two
\* records of the same timestamp
DayArrays(n) ==
    {s \in [1..n -> DayStamps \X PunchType] :
        \A i, j \in 1..n : s[i][1] = s[j][1] => i = j}

\* one-day arrays of n records in any order, equal timestamps and types outside
\* the enum included
LooseArrays(n) ==
    [1..n -> {DayStamp(m) : m \in 1..(MaxT - 1)} \X (PunchType \cup {UnknownType})]

\* one-day arrays of n records with pairwise distinct timestamps, the first
\* millisecond of the epoch (timestamp 0, 1970-01-01 00:00) among them
EpochArrays(n) ==
    {s \in [1..n -> {DayStamp(m) : m \in 0..2} \X PunchType] :
        \A i, j \in 1..n : s[i][1] = s[j][1] => i = j}

\* the arrays that hold the elements of s in some order
Reorderings(s) ==
    LET n == Len(s)
        P == {p \in [1..n -> 1..n] : \A i, j \in 1..n : p[i] = p[j] => i = j}
    IN  {[i \in 1..n |-> s[p[i]]] : p \in P}

\* hour h, minute m of day d of January 1970
Clock(d, h, m) == (d - 1) * MsPerDay + (h * 60 + m) * MsPerMinute

\* a full working day with a lunch break
NineToSix ==
    <<<<Clock(1, 9, 0), ENTRY>>, <<Clock(1, 12, 0), BREAK_START>>,
      <<Clock(1, 13, 0), BREAK_END>>, <<Clock(1, 18, 0), EXIT>>>>

\* working days of real length, hours apart instead of minutes
LongDays ==
    {<<<<Clock(1, 9, 0), ENTRY>>>>,
     <<<<Clock(1, 9, 0), ENTRY>>, <<Clock(1, 17, 0), EXIT>>>>,
     <<<<Clock(1, 8, 0), ENTRY>>, <<Clock(1, 9, 0), ENTRY>>, <<Clock(1, 17, 0), EXIT>>>>,
     NineToSix}

\* minute m of day d of January 1970 (day 0 is 31 December 1969)
AggStamp(d, m) == (d - 1) * MsPerDay + m * MsPerMinute

\* the instants a record of a profile may carry: the first two minutes of
\* 31 December 1969, 1 January 1970 and 2 January 1970
AggStamps == {AggStamp(d, m) : d \in {0, 1, 2}, m \in {1, 2}}

\* handlePunch and handleManualEntry keep the array of a profile newest first;
\* the arrays drawn hold no two records of the same minute
NewestFirst(s, n) == \A i \in 1..(n - 1) : s[i][1] > s[i + 1][1]

\* the arrays of n records a profile holds
ProfileArrays(n) == {s \in [1..n -> AggStamps \X PunchType] : NewestFirst(s, n)}

\* a profile with two days of eight hours, newest first
TwoWorkdays ==
    <<<<Clock(2, 17, 0), EXIT>>, <<Clock(2, 9, 0), ENTRY>>,
      <<Clock(1, 17, 0), EXIT>>, <<Clock(1, 9, 0), ENTRY>>>>

\* the same profile after a punch-in on a third day
TwoWorkdaysAndEntry == <<<<Clock(3, 9, 0), ENTRY>>>> \o TwoWorkdays

LongProfiles == {TwoWorkdays, TwoWorkdaysAndEntry}

\* a day with a duplicate punch-in, newest first
TwoEntriesDay ==
    <<<<Clock(1, 17, 0), EXIT>>, <<Clock(1, 9, 0), ENTRY>>, <<Clock(1, 8, 0), ENTRY>>>>

\* months of every length, with and without a record of the profile:
\* December 1969, January, February and April 1970, February 1972 (leap),
\* February 2000 (leap) and February 2100 (not leap)
CalendarMonths ==
    {<<11, 1969>>, <<0, 1970>>, <<1, 1970>>, <<3, 1970>>,
     <<1, 1972>>, <<1, 2000>>, <<1, 2100>>}

\* the months the dashboard and the exports are asked for: <<month, year>>
TargetMonths == {<<11, 1969>>, <<0, 1970>>}

\* a reference date within each of them: 31 December 1969 and 1 January 1970
RefDates == {AggStamp(0, 1), AggStamp(1, 1)}

\* settings.dailyWorkloadMinutes
Workloads == {1, 480}

NoArgs == <<>>
NoResult == <<>>

\* no getAIReview call yet
NoPromise == [state |-> "none", value |-> ""]

\* the text "HH:MM" as its four digits
HM(h, m) == <<h \div 10, h % 10, m \div 10, m % 10>>

defaultSettings ==
    [dailyWorkloadMinutes |-> 480,
     userName |-> "Usuario",
     schedule |-> [start |-> HM(9, 0), breakStart |-> HM(12, 0),
                   breakEnd |-> HM(13, 0), end |-> HM(18, 0), enabled |-> FALSE]]

\* useState<string>(''): no profile is active
NoUser == <<>>

\* a localStorage that holds no key
EmptyStorage == <<>>

\* no state update waits for the next render
NoUpdates == <<>>

\* the effects in the order of their declaration: initialisation, load of the
\* active profile, save of the records, save of the settings
Effects == <<"mount", "load", "saveRecords", "saveSettings">>

\* an effect that has not run yet
NotRun == <<<<>>, <<>>, <<>>>>

\* useState initial values of the profile state, an empty localStorage, and
\* no effect run yet
InitStore ==
    /\ profiles = <<>>
    /\ currentUserId = NoUser
    /\ settings = defaultSettings
    /\ localStorage = EmptyStorage
    /\ queued = NoUpdates
    /\ deps = [e \in {Effects[i] : i \in 1..Len(Effects)} |-> NotRun]

\* useState(new Date()), useRef(null), a browser not yet asked for permission
InitReminders ==
    /\ currentTime = now
    /\ lastNotificationTimeRef = Null
    /\ permission = "default"
    /\ notified = Null

\* the App as mounted: useState initial values, no request made
InitApp ==
    /\ now = 1
    /\ aiReview = Null
    /\ isLoadingAI = FALSE
    /\ promise = NoPromise
    /\ inFlight = 0
    /\ sent = 0
    /\ InitStore
    /\ InitReminders

InitCaller ==
    /\ op = "none"
    /\ args = NoArgs
    /\ result = NoResult
    /\ again = FALSE
    /\ first = NoResult
    /\ InitApp

InitDaily ==
    /\ \/ \E n \in 0..MaxLen : \E s \in DayArrays(n) : records = WithIds(s, n)
       \/ \E n \in 0..(MaxLen - 1) :
            \E s \in LooseArrays(n) : records = WithIds(s, n)
       \/ \E d \in LongDays : \E s \in Reorderings(d) : records = WithIds(s, Len(d))
       \/ \E n \in 1..(MaxLen - 1) :
            \E s \in EpochArrays(n) : records = WithIds(s, n)
    /\ InitCaller

InitAggregators ==
    /\ \/ \E n \in 0..MaxAggLen : \E s \in ProfileArrays(n) : records = WithIds(s, n)
       \/ \E s \in LongProfiles : records = WithIds(s, Len(s))
    /\ InitCaller

\* the bookkeeping of a call of aggregator o with arguments a returning r
Called(o, a, r) ==
    /\ op' = o
    /\ args' = a
    /\ result' = r
    /\ again' = (op = o /\ args = a)
    /\ first' = IF op = o /\ args = a THEN result ELSE NoResult
    /\ UNCHANGED <<appVars, storeVars, timerVars>>

\* the caller calls calculateDailyHours(records)
CallDaily ==
    /\ Called("daily", NoArgs, calculateDailyHours(records))
    /\ records' = dailyHoursArray(records)

\* the caller calls calculateMonthlyStats(records, currentMonthDate, dailyWorkload)
CallMonthly ==
    \E currentMonthDate \in RefDates, dailyWorkload \in Workloads :
        /\ Called("monthly", <<currentMonthDate, dailyWorkload>>,
                  calculateMonthlyStats(records, currentMonthDate, dailyWorkload))
        /\ UNCHANGED records

\* the caller calls groupRecordsByDay(records, targetMonth, targetYear)
CallGroup ==
    \E t \in TargetMonths :
        /\ Called("group", t, groupRecordsByDay(records, t[1], t[2]))
        /\ UNCHANGED records

InitRows ==
    /\ \/ \E n \in 0..MaxRowLen : \E s \in ProfileArrays(n) : records = WithIds(s, n)
       \/ records = WithIds(TwoEntriesDay, Len(TwoEntriesDay))
    /\ InitCaller

\* the caller calls groupRecordsByDay(records, targetMonth, targetYear) for a
\* month of the calendar
CallGroupCalendar ==
    \E t \in CalendarMonths :
        /\ Called("group", t, groupRecordsByDay(records, t[1], t[2]))
        /\ UNCHANGED records

NextRows == CallGroupCalendar

NextDaily == CallDaily

Next == CallDaily \/ CallMonthly \/ CallGroup

\* calculateDailyHours over one-day arrays
SpecDaily == InitDaily /\ [][NextDaily]_vars

\* the three aggregators over the array of a profile
Spec == InitAggregators /\ [][Next]_vars

\* groupRecordsByDay over months of every length
SpecRows == InitRows /\ [][NextRows]_vars

-----------------------------------------------------------------------------
(* App: the handlers of the component, one profile *)

\* string | null : <<>> is null, <<t>> the string t
Text(t) == <<t>>

\* Number.prototype.toString(): the decimal digits of n >= 0
RECURSIVE toString(_)
toString(n) == IF n < 10 THEN <<n>> ELSE toString(n \div 10) \o <<n % 10>>

\* the comparator (a, b) => b.timestamp - a.timestamp
compareDesc(a, b) == b.timestamp - a.timestamp

InsertStableDesc(s, r) ==
    LET k == Cardinality({i \in 1..Len(s) : compareDesc(s[i], r) <= 0})
    IN  SubSeq(s, 1, k) \o <<r>> \o SubSeq(s, k + 1, Len(s))

RECURSIVE sortDescFrom(_, _)
sortDescFrom(done, rest) ==
    IF rest = <<>> THEN done
    ELSE sortDescFrom(InsertStableDesc(done, Head(rest)), Tail(rest))

\* .sort((a, b) => b.timestamp - a.timestamp)
sortDesc(s) == sortDescFrom(<<>>, s)

\* no alert and no confirm shown
NoDialog == ""
FillDateAndTime == "Por favor, preencha data e hora."
InvalidDateOrTime == "Data ou hora invalida."
NothingToAnalyse == "Nenhum registro encontrado para analisar."
ConfirmClear == "Tem certeza que deseja limpar todo o historico deste perfil?"

\* the text getAIReview returns from its catch block
Fallback == "Nao foi possivel gerar a analise inteligente no momento."

\* response.text of an answered request
Texts == {"resumo"}

\* the handler named o ran with inputs a and showed dialog r
Handled(o, a, r) ==
    /\ op' = o
    /\ args' = a
    /\ result' = r
    /\ UNCHANGED <<again, first, storeVars, timerVars>>

\* the clock of the device moves on
Tick ==
    /\ now < MaxNow
    /\ now' = now + 1
    /\ Handled("tick", NoArgs, NoDialog)
    /\ UNCHANGED <<records, aiReview, isLoadingAI, promise, inFlight, sent>>

\* a punch that takes the place of the newest record: [newRecord, ...prev.slice(1)]
punchArrayOverNewest(prev, newRecord) ==
    IF prev = <<>> THEN <<newRecord>> ELSE sortDesc(<<newRecord>> \o Tail(prev))

\* [newRecord, ...prev].sort((a, b) => b.timestamp - a.timestamp)
punchArray(prev, newRecord) == sortDesc(<<newRecord>> \o prev)

\* handlePunch(type): Date.now() is read for the id, then for the timestamp
punch(type) ==
    \E timestamp \in {now, now + 1} :
        /\ Len(records) < MaxRecords
        /\ timestamp <= MaxNow
        /\ records' = punchArray(records,
                        [id |-> toString(now), timestamp |-> timestamp, type |-> type])
        /\ now' = timestamp
        /\ Handled("handlePunch", <<type>>, NoDialog)
        /\ UNCHANGED <<aiReview, isLoadingAI, promise, inFlight, sent>>

\* a click on one of the four punch buttons
handlePunch == \E type \in PunchType : punch(type)

\* the value of an input left empty
EmptyField == <<>>

\* the form as <<manualDate, manualTime>>, the date field being
\* <<year, month, day>> and the time field <<hours, minutes>>: one field left
\* empty, a month or an hour that does not exist, and 1 January 1970, 00:01
ManualForms ==
    {<<EmptyField, <<0, 1>>>>, <<<<1970, 1, 1>>, EmptyField>>,
     <<<<1970, 13, 1>>, <<0, 1>>>>, <<<<1970, 1, 1>>, <<25, 0>>>>,
     <<<<1970, 1, 1>>, <<0, 1>>>>}

\* forms filled with a minute of either of two months: 1 January 1970, 00:01,
\* and 31 December 1969, 23:59
MonthForms ==
    {<<<<1970, 1, 1>>, <<0, 1>>>>, <<<<1969, 12, 31>>, <<23, 59>>>>}

\* the types picked in the manual-entry form
ManualTypes == {ENTRY, EXIT}

\* new Date(`${manualDate}T${manualTime}`).getTime(), Null standing for NaN
parseDateTime(manualDate, manualTime) ==
    IF manualDate = EmptyField \/ manualTime = EmptyField THEN Null
    ELSE IF \/ manualDate[2] \notin 1..12
            \/ manualTime[1] \notin 0..23
            \/ manualTime[2] \notin 0..59
         THEN Null
    ELSE IF manualDate[3] \notin 1..daysInMonth(manualDate[2] - 1, manualDate[1])
         THEN Null
    ELSE Num(DaysFromCivil(manualDate[1], manualDate[2] - 1, manualDate[3]) * MsPerDay
             + (manualTime[1] * 60 + manualTime[2]) * MsPerMinute)

isNaN(v) == v = Null

\* a handler that takes an input it cannot read for the epoch: Date.parse(...) || 0
manualTimestampLenient(manualDate, manualTime) ==
    LET timestamp == parseDateTime(manualDate, manualTime)
    IN  IF isNaN(timestamp) THEN Num(0) ELSE timestamp

\* the two guards of handleManualEntry: the timestamp the record is built
\* with, Null when the handler has returned before building one
manualTimestamp(manualDate, manualTime) ==
    IF manualDate = EmptyField \/ manualTime = EmptyField THEN Null
    ELSE LET timestamp == parseDateTime(manualDate, manualTime)
         IN  IF isNaN(timestamp) THEN Null ELSE timestamp

\* the alert of the guard that returned
manualAlert(manualDate, manualTime) ==
    IF manualDate = EmptyField \/ manualTime = EmptyField THEN FillDateAndTime
    ELSE IF isNaN(parseDateTime(manualDate, manualTime)) THEN InvalidDateOrTime
    ELSE NoDialog

\* a manual entry put at the end of the list: [...prev, newRecord]
manualArrayAppended(prev, newRecord) == prev \o <<newRecord>>

\* [...prev, newRecord].sort((a, b) => b.timestamp - a.timestamp)
manualArray(prev, newRecord) == sortDesc(prev \o <<newRecord>>)

\* handleManualEntry with the form filled as form and manualType picked
manualEntry(form, manualType) ==
    LET manualDate == form[1]
        manualTime == form[2]
        timestamp == manualTimestamp(manualDate, manualTime)
    IN  /\ IF timestamp = Null THEN UNCHANGED records
           ELSE /\ Len(records) < MaxRecords
                /\ records' = manualArray(records,
                                [id |-> toString(now), timestamp |-> timestamp[1],
                                 type |-> manualType])
        /\ Handled("handleManualEntry", <<manualDate, manualTime, manualType>>,
                   manualAlert(manualDate, manualTime))
        /\ UNCHANGED appVars

handleManualEntry ==
    \E form \in ManualForms, manualType \in ManualTypes : manualEntry(form, manualType)

\* handleManualEntry with a date of this month or of the month before
handleManualEntryOfMonths ==
    \E form \in MonthForms, manualType \in ManualTypes : manualEntry(form, manualType)

\* clearHistory: confirmed is the answer to the confirm dialog
clearHistory ==
    \E confirmed \in BOOLEAN :
        /\ IF confirmed
           THEN records' = <<>> /\ aiReview' = Null
           ELSE UNCHANGED <<records, aiReview>>
        /\ Handled("clearHistory", <<confirmed>>, ConfirmClear)
        /\ UNCHANGED <<now, isLoadingAI, promise, inFlight, sent>>

Pending == [state |-> "pending", value |-> ""]

\* the click on the generate button, enabled while isLoadingAI is false:
\* generateAIReview as far as its await, that is getAIReview as far as the
\* await of generateContent; built tells whether `new GoogleGenAI(...)`, which
\* stands before the try block, returned a client or threw
generateAIReview ==
    /\ ~isLoadingAI
    /\ IF Len(records) = 0
       THEN /\ Handled("generateAIReview", NoArgs, NothingToAnalyse)
            /\ UNCHANGED <<records, appVars>>
       ELSE \E built \in BOOLEAN :
            /\ sent < MaxSent
            /\ isLoadingAI' = TRUE
            /\ IF built
               THEN /\ promise' = Pending
                    /\ inFlight' = inFlight + 1
                    /\ sent' = sent + 1
               ELSE /\ promise' = [state |-> "rejected", value |-> "error"]
                    /\ UNCHANGED <<inFlight, sent>>
            /\ Handled("generateAIReview", <<built>>, NoDialog)
            /\ UNCHANGED <<records, now, aiReview>>

\* generateAIReview after its await, p being the settled promise of getAIReview
Resumed(p) ==
    IF p.state = "fulfilled"
    THEN aiReview' = Text(p.value) /\ isLoadingAI' = FALSE
    ELSE UNCHANGED <<aiReview, isLoadingAI>>

\* a catch block that throws the error on
onCallFailureRethrow == [state |-> "rejected", value |-> "error"]

\* the catch block of getAIReview
onCallFailure == [state |-> "fulfilled", value |-> Fallback]

\* generateContent answers: return response.text
requestSucceeds ==
    \E text \in Texts :
        /\ inFlight > 0
        /\ inFlight' = inFlight - 1
        /\ promise' = [state |-> "fulfilled", value |-> text]
        /\ Resumed([state |-> "fulfilled", value |-> text])
        /\ Handled("requestSucceeds", <<text>>, NoDialog)
        /\ UNCHANGED <<records, now, sent>>

\* generateContent throws
requestFails ==
    /\ inFlight > 0
    /\ inFlight' = inFlight - 1
    /\ promise' = onCallFailure
    /\ Resumed(onCallFailure)
    /\ Handled("requestFails", NoArgs, NoDialog)
    /\ UNCHANGED <<records, now, sent>>

\* records.filter(r => new Date(r.timestamp).setHours(0, 0, 0, 0) === today):
\* a new array of the records of the day of today
getTodayRecords(rs, today) ==
    SelectSeq(rs, LAMBDA r : EpochDay(r.timestamp) = EpochDay(today))

\* a render of the dashboard: todayStats of the array getTodayRecords built and
\* monthlyStats of the arrays calculateMonthlyStats filters out of records; the
\* state array itself is handed to filter only
render ==
    /\ Handled("render",
               <<calculateDailyHours(getTodayRecords(records, now)),
                 calculateMonthlyStats(records, currentTime,
                                       settings.dailyWorkloadMinutes)>>,
               NoDialog)
    /\ UNCHANGED <<records, appVars>>

NothingToExport == "Sem registros para exportar."

\* lastRecordDate.getMonth(), lastRecordDate.getFullYear(): the month and year
\* an export hands to groupRecordsByDay, those of records[0], or of the device
\* clock for an empty array
exportReference(rs, today) ==
    IF Len(rs) > 0
    THEN <<getMonth(rs[1].timestamp), getFullYear(rs[1].timestamp)>>
    ELSE <<getMonth(today), getFullYear(today)>>

\* the CSV button: the file is written from the rows of groupRecordsByDay,
\* which filters records and leaves the array as it is
exportToCSV ==
    /\ IF Len(records) = 0
       THEN Handled("exportToCSV", NoArgs, NothingToExport)
       ELSE Handled("exportToCSV", exportReference(records, now), NoDialog)
    /\ UNCHANGED <<records, appVars>>

\* the PDF button: no guard for an empty array
exportToPDF ==
    /\ Handled("exportToPDF", exportReference(records, now), NoDialog)
    /\ UNCHANGED <<records, appVars>>

\* a profile that holds no record yet
InitProfile ==
    /\ records = <<>>
    /\ InitCaller

NextApp ==
    \/ Tick
    \/ handlePunch
    \/ handleManualEntry
    \/ clearHistory
    \/ generateAIReview
    \/ requestSucceeds
    \/ requestFails

\* the handlers of the App over one profile
SpecApp == InitProfile /\ [][NextApp]_vars

NextExport ==
    \/ Tick
    \/ handlePunch
    \/ handleManualEntryOfMonths
    \/ render
    \/ exportToCSV
    \/ exportToPDF

\* the handlers that add records, the renders and the exports
SpecExport == InitProfile /\ [][NextExport]_vars

-----------------------------------------------------------------------------
(* Profiles and persistence: the initialisation effect, the load effect and
   the two save effects, each a step of its own; the effects of one commit run
   in the order of their declaration over the state of that commit, and the
   state updates they ask for are applied by the render that follows them *)

\* the names typed into the new-profile form, the empty one among them
Names == {"", "Ana", "Bia"}

\* the name of the profile of the first run
DefaultName == "Usuario Padrao"

ProfilesKey == <<"chronos_profiles", NoUser>>
ActiveKey == <<"chronos_active_user_id", NoUser>>
OldRecordsKey == <<"chronos_records", NoUser>>
OldSettingsKey == <<"chronos_settings", NoUser>>
\* `chronos_records_${id}` and `chronos_settings_${id}`
RecordsKey(id) == <<"chronos_records_", id>>
SettingsKey(id) == <<"chronos_settings_", id>>

\* localStorage.getItem(key): null or the text wrapped
getItem(store, key) == IF key \in DOMAIN store THEN Text(store[key]) ELSE Null

\* localStorage.setItem(key, value)
setItem(store, key, value) ==
    [k \in DOMAIN store \cup {key} |-> IF k = key THEN value ELSE store[k]]

\* JSON.stringify(records): the text names id, timestamp and type of each record
stringifyRecords(rs) ==
    [i \in 1..Len(rs) |-> <<rs[i].id, rs[i].timestamp, rs[i].type>>]

\* JSON.parse of such a text
parseRecords(text) ==
    [i \in 1..Len(text) |->
        [id |-> text[i][1], timestamp |-> text[i][2], type |-> text[i][3]]]

\* JSON.stringify(settings)
stringifySettings(st) ==
    <<st.dailyWorkloadMinutes, st.userName,
      <<st.schedule.start, st.schedule.breakStart, st.schedule.breakEnd,
        st.schedule.end, st.schedule.enabled>>>>

\* JSON.parse of such a text
parseSettings(text) ==
    [dailyWorkloadMinutes |-> text[1],
     userName |-> text[2],
     schedule |-> [start |-> text[3][1], breakStart |-> text[3][2],
                   breakEnd |-> text[3][3], end |-> text[3][4],
                   enabled |-> text[3][5]]]

\* JSON.stringify(profiles) and JSON.parse of it
stringifyProfiles(ps) == [i \in 1..Len(ps) |-> <<ps[i].id, ps[i].name>>]
parseProfiles(text) == [i \in 1..Len(text) |-> [id |-> text[i][1], name |-> text[i][2]]]

\* state updates asked for on top of those that wait already
Merge(q, update) ==
    [k \in DOMAIN q \cup DOMAIN update |->
        IF k \in DOMAIN update THEN update[k] ELSE q[k]]

\* the dependency array of each effect in the committed state
currentDeps ==
    [mount |-> <<>>,
     load |-> <<currentUserId>>,
     saveRecords |-> <<records, currentUserId>>,
     saveSettings |-> <<settings, currentUserId>>]

\* effect e runs after this commit
Due(e) == deps[e] # currentDeps[e]

\* effect Effects[i] is the next to run
NextToRun(i) ==
    /\ Due(Effects[i])
    /\ \A j \in 1..(i - 1) : ~Due(Effects[j])

Ran(e) == deps' = [deps EXCEPT ![e] = currentDeps[e]]

\* every effect has run and every state update is rendered
Quiet ==
    /\ \A i \in 1..Len(Effects) : ~Due(Effects[i])
    /\ DOMAIN queued = {}

\* the ids of the profiles in ps
IdsOf(ps) == {ps[i].id : i \in 1..Len(ps)}

\* the effects leave the last handler's name and the clock as they are
EffectOnly ==
    UNCHANGED <<op, args, result, again, first, now, isLoadingAI, promise,
                inFlight, sent, timerVars>>

\* the initialisation effect: the stored profiles and the last active one, or
\* on the first run a default profile that takes over the old keys
mount ==
    /\ NextToRun(1)
    /\ LET storedProfiles == getItem(localStorage, ProfilesKey)
       IN  IF storedProfiles # Null
           THEN LET parsedProfiles == parseProfiles(storedProfiles[1])
                    lastActiveId == getItem(localStorage, ActiveKey)
                IN  /\ queued' =
                        IF lastActiveId # Null /\ lastActiveId[1] \in IdsOf(parsedProfiles)
                        THEN Merge(queued, [profiles |-> parsedProfiles,
                                            currentUserId |-> lastActiveId[1]])
                        ELSE IF Len(parsedProfiles) > 0
                        THEN Merge(queued, [profiles |-> parsedProfiles,
                                            currentUserId |-> parsedProfiles[1].id])
                        ELSE Merge(queued, [profiles |-> parsedProfiles])
                    /\ UNCHANGED localStorage
           ELSE LET oldRecords == getItem(localStorage, OldRecordsKey)
                    oldSettings == getItem(localStorage, OldSettingsKey)
                    newId == toString(now)
                    initialName ==
                        IF oldSettings # Null /\ parseSettings(oldSettings[1]).userName # ""
                        THEN parseSettings(oldSettings[1]).userName
                        ELSE DefaultName
                    initialProfiles == <<[id |-> newId, name |-> initialName]>>
                    s1 == IF oldRecords # Null
                          THEN setItem(localStorage, RecordsKey(newId), oldRecords[1])
                          ELSE localStorage
                    s2 == IF oldSettings # Null
                          THEN setItem(s1, SettingsKey(newId), oldSettings[1])
                          ELSE s1
                    s3 == setItem(s2, ProfilesKey, stringifyProfiles(initialProfiles))
                IN  /\ localStorage' = setItem(s3, ActiveKey, newId)
                    /\ queued' = Merge(queued, [profiles |-> initialProfiles,
                                                currentUserId |-> newId])
    /\ Ran("mount")
    /\ UNCHANGED <<records, aiReview, profiles, currentUserId, settings>>
    /\ EffectOnly

\* a load effect that takes no records from the store
loadRecordsEmpty(userRecords) == <<>>

\* userRecords ? JSON.parse(userRecords) : []
loadRecords(userRecords) ==
    IF userRecords # Null THEN parseRecords(userRecords[1]) ELSE <<>>

\* the settings the load effect sets: the stored ones over the defaults, or the
\* defaults under the name of the profile
loadSettings(userSettings, ps, userId) ==
    IF userSettings # Null
    THEN LET parsedSettings == parseSettings(userSettings[1])
         IN  [dailyWorkloadMinutes |-> parsedSettings.dailyWorkloadMinutes,
              userName |-> parsedSettings.userName,
              schedule |-> parsedSettings.schedule]
    ELSE [defaultSettings EXCEPT
            !.userName = IF userId \in IdsOf(ps)
                         THEN (CHOOSE q \in {ps[i] : i \in 1..Len(ps)} : q.id = userId).name
                         ELSE "Novo Usuario"]

\* the load effect of the active profile
load ==
    /\ NextToRun(2)
    /\ IF currentUserId = NoUser
       THEN UNCHANGED <<queued, localStorage>>
       ELSE LET userRecords == getItem(localStorage, RecordsKey(currentUserId))
                userSettings == getItem(localStorage, SettingsKey(currentUserId))
            IN  /\ queued' = Merge(queued,
                        [records |-> loadRecords(userRecords),
                         settings |-> loadSettings(userSettings, profiles, currentUserId),
                         aiReview |-> Null])
                /\ localStorage' = setItem(localStorage, ActiveKey, currentUserId)
    /\ Ran("load")
    /\ UNCHANGED <<records, aiReview, profiles, currentUserId, settings>>
    /\ EffectOnly

\* the save effect of the records
saveRecords ==
    /\ NextToRun(3)
    /\ localStorage' =
            IF currentUserId # NoUser
            THEN setItem(localStorage, RecordsKey(currentUserId), stringifyRecords(records))
            ELSE localStorage
    /\ Ran("saveRecords")
    /\ UNCHANGED <<records, aiReview, profiles, currentUserId, settings, queued>>
    /\ EffectOnly

\* prev.map(p => p.id === currentUserId && p.name !== settings.userName
\*                  ? { ...p, name: settings.userName } : p)
syncProfileName(prev, userId, userName) ==
    [i \in 1..Len(prev) |->
        IF prev[i].id = userId /\ prev[i].name # userName
        THEN [prev[i] EXCEPT !.name = userName]
        ELSE prev[i]]

\* the save effect of the settings, with the update of the name in the list
saveSettings ==
    /\ NextToRun(4)
    /\ IF currentUserId # NoUser
       THEN LET updated == syncProfileName(profiles, currentUserId, settings.userName)
                saved == setItem(localStorage, SettingsKey(currentUserId),
                                 stringifySettings(settings))
            IN  /\ profiles' = updated
                /\ localStorage' =
                        IF stringifyProfiles(updated) # stringifyProfiles(profiles)
                        THEN setItem(saved, ProfilesKey, stringifyProfiles(updated))
                        ELSE saved
       ELSE UNCHANGED <<profiles, localStorage>>
    /\ Ran("saveSettings")
    /\ UNCHANGED <<records, aiReview, currentUserId, settings, queued>>
    /\ EffectOnly

\* the value a state has after the render: the queued one, or the one it had
Rendered(name, value) == IF name \in DOMAIN queued THEN queued[name] ELSE value

\* the render that applies the state updates the effects asked for
renderQueued ==
    /\ \A i \in 1..Len(Effects) : ~Due(Effects[i])
    /\ DOMAIN queued # {}
    /\ profiles' = Rendered("profiles", profiles)
    /\ currentUserId' = Rendered("currentUserId", currentUserId)
    /\ records' = Rendered("records", records)
    /\ settings' = Rendered("settings", settings)
    /\ aiReview' = Rendered("aiReview", aiReview)
    /\ queued' = NoUpdates
    /\ UNCHANGED <<localStorage, deps>>
    /\ EffectOnly

\* what a switch to another profile and back is to leave as it was: the state in
\* memory and the store
View ==
    [currentUserId |-> currentUserId, records |-> records, settings |-> settings,
     profiles |-> profiles, localStorage |-> localStorage]

\* the select "Perfil Ativo": setCurrentUserId(e.target.value); again tells
\* that this switch leads back to the profile the switch before it came from,
\* first is the state that switch started in
switchProfile ==
    \E id \in IdsOf(profiles) :
        /\ Quiet
        /\ id # currentUserId
        /\ currentUserId' = id
        /\ op' = "switchProfile"
        /\ args' = <<id>>
        /\ result' = NoDialog
        /\ IF op = "switchProfile" /\ ~again /\ first.currentUserId = id
           THEN again' = TRUE /\ first' = first
           ELSE again' = FALSE /\ first' = View
        /\ UNCHANGED <<records, appVars, profiles, settings, localStorage, queued,
                       deps, timerVars>>

EnterProfileName == "Digite um nome para o perfil."

\* handleCreateProfile: Date.now() is read after the name was typed, later
\* than every reading before it; the names of the profiles are told apart
handleCreateProfile ==
    \E newProfileName \in Names :
        /\ Quiet
        /\ currentUserId # NoUser
        /\ \A i \in 1..Len(profiles) : profiles[i].name # newProfileName
        /\ IF newProfileName = ""
           THEN /\ result' = EnterProfileName
                /\ UNCHANGED <<now, profiles, localStorage, currentUserId>>
           ELSE LET newId == toString(now + 1)
                    updatedProfiles == Append(profiles, [id |-> newId, name |-> newProfileName])
                    s1 == setItem(localStorage, ProfilesKey, stringifyProfiles(updatedProfiles))
                    s2 == setItem(s1, RecordsKey(newId), stringifyRecords(<<>>))
                IN  /\ now < MaxNow
                    /\ now' = now + 1
                    /\ profiles' = updatedProfiles
                    /\ localStorage' =
                            setItem(s2, SettingsKey(newId),
                                    stringifySettings([defaultSettings EXCEPT
                                                        !.userName = newProfileName]))
                    /\ currentUserId' = newId
                    /\ result' = NoDialog
        /\ op' = "handleCreateProfile"
        /\ args' = <<newProfileName>>
        /\ UNCHANGED <<records, again, first, aiReview, isLoadingAI, promise, inFlight,
                       sent, settings, queued, deps, timerVars>>

\* a click on the entry button once the effects have run
handlePunchEntry == Quiet /\ currentUserId # NoUser /\ punch(ENTRY)

\* the page is loaded again: the state in memory starts over, the store stays
reload ==
    /\ Quiet
    /\ currentUserId # NoUser
    /\ records' = <<>>
    /\ profiles' = <<>>
    /\ currentUserId' = NoUser
    /\ settings' = defaultSettings
    /\ queued' = NoUpdates
    /\ deps' = [e \in DOMAIN deps |-> NotRun]
    /\ op' = "reload"
    /\ args' = NoArgs
    /\ result' = NoDialog
    /\ again' = FALSE
    /\ first' = NoResult
    /\ UNCHANGED <<appVars, localStorage, timerVars>>

NextProfiles ==
    \/ mount
    \/ load
    \/ saveRecords
    \/ saveSettings
    \/ renderQueued
    \/ switchProfile
    \/ handleCreateProfile
    \/ handlePunchEntry
    \/ reload

\* the profiles of one browser and their store
SpecProfiles == InitProfile /\ [][NextProfiles]_vars

-----------------------------------------------------------------------------
(* Reminders: the interval callback of the clock, the schedule form and the
   permission prompt of the browser *)

\* the delay of setInterval
IntervalMs == 1000

\* the model follows every TicksPerStep-th run of the callback: the runs
\* between two of them read a clock of the same minute as one of the two
TicksPerStep == 30

\* the minutes the clock runs for: one day and the minutes around 09:00
MaxMinutes == 1442

\* 08:59 on 1 January 1970
TimerStart == Clock(1, 8, 59)

\* the times typed into the schedule form
ScheduleTimes == {HM(9, 0)}

ScheduleFields == {"start", "breakStart", "breakEnd", "end"}

\* now.toLocaleTimeString('pt-BR', {hour: '2-digit', minute: '2-digit'})
toLocaleTimeString(ts) == HM(getHours(ts), getMinutes(ts))

\* the if / else-if chain of the callback: the title of the reminder that is
\* due at currentHM, Null when none is
reminderAt(schedule, currentHM) ==
    IF currentHM = schedule.start THEN Text("Chronos: Hora de Entrar!")
    ELSE IF currentHM = schedule.breakStart THEN Text("Chronos: Pausa")
    ELSE IF currentHM = schedule.breakEnd THEN Text("Chronos: Volta da Pausa")
    ELSE IF currentHM = schedule.end THEN Text("Chronos: Fim do Expediente")
    ELSE Null

\* a callback that does not look at the minute of the last reminder
notYetRemindedAlways(ref, currentHM) == TRUE

\* lastNotificationTimeRef.current !== currentHM
notYetReminded(ref, currentHM) == ref # currentHM

\* sendNotification(title, body) at time ts
sendNotification(title, ts) ==
    IF permission = "granted" /\ settings.schedule.enabled
    THEN notified' = <<ts, title>>
    ELSE UNCHANGED notified

\* the handlers of the reminders leave the records, the review and the store
\* as they are
RemindersOnly ==
    UNCHANGED <<records, op, args, result, again, first,
                aiReview, isLoadingAI, promise, inFlight, sent,
                profiles, currentUserId, localStorage, queued, deps>>

\* the callback of setInterval
onInterval ==
    LET t == now + TicksPerStep * IntervalMs
        currentHM == toLocaleTimeString(t)
        title == reminderAt(settings.schedule, currentHM)
    IN  /\ t <= TimerStart + MaxMinutes * MsPerMinute
        /\ now' = t
        /\ currentTime' = t
        /\ IF /\ settings.schedule.enabled
              /\ notYetReminded(lastNotificationTimeRef, currentHM)
              /\ title # Null
           THEN /\ sendNotification(title[1], t)
                /\ lastNotificationTimeRef' = currentHM
           ELSE UNCHANGED <<notified, lastNotificationTimeRef>>
        /\ UNCHANGED <<settings, permission>>
        /\ RemindersOnly

\* the switch "Notificacoes e Horario Fixo": requestNotificationPermission()
\* as far as its await when the switch is turned on, then setSettings
toggleSchedule ==
    /\ settings' = [settings EXCEPT !.schedule.enabled = ~@]
    /\ permission' = IF ~settings.schedule.enabled /\ permission = "default"
                     THEN "prompt" ELSE permission
    /\ UNCHANGED <<now, currentTime, lastNotificationTimeRef, notified>>
    /\ RemindersOnly

\* the user answers the prompt of Notification.requestPermission(); while the
\* prompt is open Notification.permission reads 'default', which the code
\* tells from 'granted' only
answerPrompt ==
    /\ permission = "prompt"
    /\ \E answer \in {"granted", "denied"} : permission' = answer
    /\ UNCHANGED <<now, currentTime, settings, lastNotificationTimeRef, notified>>
    /\ RemindersOnly

\* a time typed into one of the four inputs, shown while the switch is on
editSchedule ==
    /\ settings.schedule.enabled
    /\ \E field \in ScheduleFields, value \in ScheduleTimes :
            settings' = [settings EXCEPT !.schedule[field] = value]
    /\ UNCHANGED <<now, currentTime, permission, lastNotificationTimeRef, notified>>
    /\ RemindersOnly

\* the App as mounted at 08:59
InitTimer ==
    /\ records = <<>>
    /\ op = "none"
    /\ args = NoArgs
    /\ result = NoResult
    /\ again = FALSE
    /\ first = NoResult
    /\ now = TimerStart
    /\ aiReview = Null
    /\ isLoadingAI = FALSE
    /\ promise = NoPromise
    /\ inFlight = 0
    /\ sent = 0
    /\ InitStore
    /\ InitReminders

NextTimer ==
    \/ onInterval
    \/ toggleSchedule
    \/ answerPrompt
    \/ editSchedule

\* the reminders of one profile over a day
SpecTimer == InitTimer /\ [][NextTimer]_vars

-----------------------------------------------------------------------------
(* Properties of calculateDailyHours, under SpecDaily *)

Timestamps(rs) == {rs[i].timestamp : i \in 1..Len(rs)}

TypesOf(rs) == {rs[i].type : i \in 1..Len(rs)}

\* no two records of rs carry the same timestamp, and every timestamp is positive
DistinctPositive(rs) ==
    /\ \A i, j \in 1..Len(rs) : rs[i].timestamp = rs[j].timestamp => i = j
    /\ \A i \in 1..Len(rs) : rs[i].timestamp > 0

\* the caller's array came back in another order than it was handed over
Reordered(rs) == \E i \in 1..Len(rs) : rs[i].id # i

Earliest(S) == CHOOSE r \in S : \A q \in S : r.timestamp <= q.timestamp

\* the state machine of the design's table: two pending slots, each a set that
\* holds the pending timestamp or nothing
TableStart == [total |-> 0, break |-> 0, openEntry |-> {}, openBreak |-> {}]

TableClose(open, timestamp) ==
    IF open = {} THEN 0
    ELSE (timestamp - (CHOOSE t \in open : TRUE)) \div MsPerMinute

TableStep(m, r) ==
    CASE r.type = ENTRY -> [m EXCEPT !.openEntry = {r.timestamp}]
      [] r.type = BREAK_START ->
            [m EXCEPT !.total = @ + TableClose(m.openEntry, r.timestamp),
                      !.openEntry = {},
                      !.openBreak = {r.timestamp}]
      [] r.type = BREAK_END ->
            [m EXCEPT !.break = @ + TableClose(m.openBreak, r.timestamp),
                      !.openBreak = {},
                      !.openEntry = {r.timestamp}]
      [] r.type = EXIT ->
            [m EXCEPT !.total = @ + TableClose(m.openEntry, r.timestamp),
                      !.openEntry = {}]

\* the table run over the set S of records, earliest record first
RECURSIVE TableRun(_, _)
TableRun(m, S) ==
    IF S = {} THEN m
    ELSE LET r == Earliest(S) IN TableRun(TableStep(m, r), S \ {r})

TableResult(S) ==
    LET m == TableRun(TableStart, S) IN [total |-> m.total, break |-> m.break]

RecordSet(rs) == {rs[i] : i \in 1..Len(rs)}

\* C1: for records of the four types with pairwise distinct, positive
\* timestamps, calculateDailyHours returns the {total, break} of the design's
\* state machine run over the records in ascending timestamp order.
C1_DailyFollowsTable ==
    (op = "daily" /\ DistinctPositive(records) /\ TypesOf(records) \subseteq PunchType)
        => result = TableResult(RecordSet(records))

C1_Witness ==
    /\ op = "daily"
    /\ Len(records) = 4
    /\ DistinctPositive(records)
    /\ TypesOf(records) = PunchType
    /\ Reordered(records)
    /\ result.total > 0
    /\ result.break > 0

\* the one record of type t in rs
TheOne(rs, t) == CHOOSE i \in 1..Len(rs) : rs[i].type = t

\* rs is one ENTRY, one BREAK_START, one BREAK_END and one EXIT, in that order
\* of time, the ENTRY after the epoch
FullDay(rs) ==
    /\ Len(rs) = 4
    /\ \A t \in PunchType : Cardinality({i \in 1..4 : rs[i].type = t}) = 1
    /\ 0 < rs[TheOne(rs, ENTRY)].timestamp
    /\ rs[TheOne(rs, ENTRY)].timestamp < rs[TheOne(rs, BREAK_START)].timestamp
    /\ rs[TheOne(rs, BREAK_START)].timestamp < rs[TheOne(rs, BREAK_END)].timestamp
    /\ rs[TheOne(rs, BREAK_END)].timestamp < rs[TheOne(rs, EXIT)].timestamp

\* C2: a day of one ENTRY at e, one BREAK_START at b, one BREAK_END at r and one
\* EXIT at x, 0 < e < b < r < x, gives total = (b - e) + (x - r) and
\* break = (r - b) in minutes; 09:00, 12:00, 13:00, 18:00 give 480 and 60.
C2_FullDayTotals ==
    /\ (op = "daily" /\ FullDay(records)) =>
        LET e == records[TheOne(records, ENTRY)].timestamp
            b == records[TheOne(records, BREAK_START)].timestamp
            r == records[TheOne(records, BREAK_END)].timestamp
            x == records[TheOne(records, EXIT)].timestamp
        IN  /\ result.total * MsPerMinute = (b - e) + (x - r)
            /\ result.break * MsPerMinute = r - b
    /\ (op = "daily" /\ Timestamps(records) = {NineToSix[i][1] : i \in 1..4}
                      /\ FullDay(records))
            => result = [total |-> 480, break |-> 60]

C2_Witness ==
    /\ op = "daily"
    /\ FullDay(records)
    /\ Reordered(records)
    /\ result.total = 480
    /\ result.break = 60

Closers == {EXIT, BREAK_START}
Openers == {ENTRY, BREAK_END}

\* the last place of rs that holds an EXIT or a BREAK_START, 0 when none does
LastCloser(rs) ==
    LET at == {i \in 1..Len(rs) : rs[i].type \in Closers}
    IN  IF at = {} THEN 0 ELSE CHOOSE i \in at : \A j \in at : j <= i

\* C3: only closed intervals count as worked: the records that follow the last
\* EXIT or BREAK_START of the day add nothing to total, and a day with no EXIT
\* and no BREAK_START has total 0.  (records is in the order the call walked.)
C3_OnlyClosedIntervals ==
    op = "daily" =>
        /\ result.total =
             calculateDailyHours(SubSeq(records, 1, LastCloser(records))).total
        /\ (TypesOf(records) \cap Closers = {}) => result.total = 0

C3_Witness ==
    /\ op = "daily"
    /\ LastCloser(records) > 0
    /\ LastCloser(records) < Len(records)
    /\ records[Len(records)].type \in Openers
    /\ result.total > 0

C3_WitnessNoCloser ==
    /\ op = "daily"
    /\ Len(records) >= 2
    /\ TypesOf(records) = Openers
    /\ DistinctPositive(records)

\* rs is two ENTRY records and one EXIT, the EXIT last in time, the first ENTRY
\* after the epoch
TwoEntriesOneExit(rs) ==
    /\ Len(rs) = 3
    /\ DistinctPositive(rs)
    /\ Cardinality({i \in 1..3 : rs[i].type = ENTRY}) = 2
    /\ Cardinality({i \in 1..3 : rs[i].type = EXIT}) = 1
    /\ \A i \in 1..3 : rs[i].timestamp <= rs[TheOne(rs, EXIT)].timestamp

\* the timestamp of the later of the ENTRY records of rs
LaterEntry(rs) ==
    LET es == {rs[i].timestamp : i \in {k \in 1..Len(rs) : rs[k].type = ENTRY}}
    IN  CHOOSE t \in es : \A u \in es : u <= t

\* C4: two ENTRY punches at a < b before one EXIT at x: total = x - b minutes,
\* the later ENTRY alone being used.
C4_LaterEntryUsed ==
    (op = "daily" /\ TwoEntriesOneExit(records)) =>
        result.total * MsPerMinute =
            records[TheOne(records, EXIT)].timestamp - LaterEntry(records)

C4_Witness ==
    /\ op = "daily"
    /\ TwoEntriesOneExit(records)
    /\ Reordered(records)
    /\ result.total > 0

Zero == [total |-> 0, break |-> 0]

\* the records of rs whose type is one of the four punch kinds
KnownOnly(rs) == SelectSeq(rs, LAMBDA r : r.type \in PunchType)

\* C5: calculateDailyHours always returns a {total, break} pair: {0, 0} for the
\* empty array and for an array of records of unknown type, and in any array
\* the records of unknown type are skipped, the result being that of the array
\* without them.
C5_TotalOverMalformed ==
    op = "daily" =>
        /\ DOMAIN result = {"total", "break"}
        /\ Len(records) = 0 => result = Zero
        /\ (TypesOf(records) \cap PunchType = {}) => result = Zero
        /\ result = calculateDailyHours(KnownOnly(records))

C5_Witness ==
    /\ op = "daily"
    /\ Len(records) = 3
    /\ records[2].type = UnknownType
    /\ records[1].timestamp < records[2].timestamp
    /\ records[2].timestamp < records[3].timestamp
    /\ result.total = 2

C5_WitnessAllUnknown ==
    /\ op = "daily"
    /\ Len(records) = 3
    /\ TypesOf(records) = {UnknownType}
    /\ Reordered(records)

\* C6: the result is the same for every order of the array handed over, records
\* that share a timestamp included.
C6_OrderIndependent ==
    op = "daily" => \A p \in Reorderings(records) : calculateDailyHours(p) = result

\* C9: no span of time is counted twice: total + break is at most the distance
\* between the earliest and the latest record of the day.
C9_NoDoubleCounting ==
    (op = "daily" /\ Len(records) > 0) =>
        (result.total + result.break) * MsPerMinute
            <= records[Len(records)].timestamp - records[1].timestamp

\* rs is one ENTRY, one BREAK_START and one EXIT in that order of time, the
\* ENTRY after the epoch, and at most one BREAK_END, later than the EXIT
BreakLeftOpen(rs) ==
    /\ Len(rs) \in {3, 4}
    /\ DistinctPositive(rs)
    /\ \A t \in {ENTRY, BREAK_START, EXIT} :
            Cardinality({i \in 1..Len(rs) : rs[i].type = t}) = 1
    /\ Cardinality({i \in 1..Len(rs) : rs[i].type = BREAK_END}) = Len(rs) - 3
    /\ rs[TheOne(rs, ENTRY)].timestamp < rs[TheOne(rs, BREAK_START)].timestamp
    /\ rs[TheOne(rs, BREAK_START)].timestamp < rs[TheOne(rs, EXIT)].timestamp
    /\ \A i \in 1..Len(rs) :
            rs[i].type = BREAK_END => rs[TheOne(rs, EXIT)].timestamp < rs[i].timestamp

\* C16: EXIT leaves the open-break slot alone: ENTRY at e, BREAK_START at b and
\* EXIT at x, 0 < e < b < x, with no BREAK_END give total = b - e and break = 0,
\* the span from b to x being neither work nor break; the slot is still open
\* after the EXIT, a BREAK_END at r > x closing it into break = r - b.
C16_ExitLeavesBreakOpen ==
    (op = "daily" /\ BreakLeftOpen(records)) =>
        LET e == records[TheOne(records, ENTRY)].timestamp
            b == records[TheOne(records, BREAK_START)].timestamp
        IN  /\ result.total * MsPerMinute = b - e
            /\ Len(records) = 3 => result.break = 0
            /\ Len(records) = 4 =>
                  result.break * MsPerMinute =
                      records[TheOne(records, BREAK_END)].timestamp - b

C16_Witness ==
    /\ op = "daily"
    /\ BreakLeftOpen(records)
    /\ Len(records) = 3
    /\ Reordered(records)
    /\ result.total > 0
    /\ result.break = 0
    /\ (result.total + result.break) * MsPerMinute
            < records[3].timestamp - records[1].timestamp

C16_WitnessLateBreakEnd ==
    /\ op = "daily"
    /\ BreakLeftOpen(records)
    /\ Len(records) = 4
    /\ result.break > 1

-----------------------------------------------------------------------------
(* Properties of the three aggregators, under Spec *)

\* C7: no aggregator mutates the array it is handed: the caller's array holds
\* the same records in the same order after a call as before it.
C7_ArrayUntouched == [][records' = records]_vars

\* C8: an aggregator called twice in a row with the same arguments returns
\* equal results on both calls.
C8_RepeatedCallSameResult == again => result = first

C8_Witness ==
    /\ again
    /\ op = "daily"
    /\ Reordered(records)
    /\ result.total > 0

C8_WitnessMonthly ==
    /\ again
    /\ op = "monthly"
    /\ result.totalWorked > 0

C8_WitnessGroup ==
    /\ again
    /\ op = "group"
    /\ \E i \in DOMAIN result : result[i].entrada # EmptyCell

\* the epoch days of the month and year of the reference date
MonthDays(currentMonthDate) ==
    {z \in EpochDays :
        /\ CivilOfDay[z].month = getMonth(currentMonthDate)
        /\ CivilOfDay[z].year = getFullYear(currentMonthDate)}

\* the minutes worked on epoch day z, by the daily aggregator
WorkedOn(rs, z) ==
    calculateDailyHours(SelectSeq(rs, LAMBDA r : EpochDay(r.timestamp) = z)).total

\* the sum over the days of Z of the minutes worked beyond the daily target
RECURSIVE Surplus(_, _, _)
Surplus(rs, Z, dailyWorkload) ==
    IF Z = {} THEN 0
    ELSE LET z == CHOOSE d \in Z : TRUE
         IN  (WorkedOn(rs, z) - dailyWorkload) + Surplus(rs, Z \ {z}, dailyWorkload)

\* C10: balance = totalWorked - daysWorkedCount * dailyWorkload, so that only
\* the days with worked time are charged with the daily target: the balance
\* is the sum, over the days of the month with worked time, of the minutes
\* worked beyond the target; two worked days of 480 minutes with target 480
\* give balance 0.
C10_BalanceChargesWorkedDays ==
    /\ op = "monthly" =>
        /\ result.balance =
             result.totalWorked - result.daysWorkedCount * args[2]
        /\ result.balance =
             Surplus(records,
                     {z \in MonthDays(args[1]) : WorkedOn(records, z) > 0},
                     args[2])
    /\ (op = "monthly" /\ args[2] = 480 /\ getMonth(args[1]) = 0
                        /\ \E s \in LongProfiles :
                              RecordSet(records) = RecordSet(WithIds(s, Len(s))))
            => result = [totalWorked |-> 960, totalBreak |-> 0,
                         balance |-> 0, daysWorkedCount |-> 2]

C10_Witness ==
    /\ op = "monthly"
    /\ Len(records) = 5
    /\ result.daysWorkedCount = 2
    /\ result.totalWorked = 960
    /\ result.balance = 0

C10_WitnessShortDays ==
    /\ op = "monthly"
    /\ result.daysWorkedCount = 2
    /\ result.balance < 0

C10_WitnessIdleDay ==
    /\ op = "monthly"
    /\ result.daysWorkedCount = 1
    /\ \E z \in MonthDays(args[1]) :
        /\ WorkedOn(records, z) = 0
        /\ \E i \in 1..Len(records) : EpochDay(records[i].timestamp) = z

\* the break minutes of epoch day z, by the daily aggregator
BreakOn(rs, z) ==
    calculateDailyHours(SelectSeq(rs, LAMBDA r : EpochDay(r.timestamp) = z)).break

\* the records of rs that fall on epoch day z
OnDay(rs, z) == {i \in 1..Len(rs) : EpochDay(rs[i].timestamp) = z}

\* the days of Z on which rs holds a record; the other days of Z have no
\* record, hence neither work nor break
Busy(rs, Z) == Z \cap {EpochDay(rs[i].timestamp) : i \in 1..Len(rs)}

RECURSIVE BreakSum(_, _)
BreakSum(rs, Z) ==
    IF Z = {} THEN 0
    ELSE LET z == CHOOSE d \in Z : TRUE IN BreakOn(rs, z) + BreakSum(rs, Z \ {z})

RECURSIVE WorkedSum(_, _)
WorkedSum(rs, Z) ==
    IF Z = {} THEN 0
    ELSE LET z == CHOOSE d \in Z : TRUE IN WorkedOn(rs, z) + WorkedSum(rs, Z \ {z})

\* C11: daysWorkedCount is the number of days of the target month whose daily
\* total is strictly greater than 0; a day of unmatched punches only (a lone
\* ENTRY, a break pair) is not counted, while its break minutes are part of
\* totalBreak.
C11_DaysWorkedCountsPositiveTotals ==
    op = "monthly" =>
        LET days == Busy(records, MonthDays(args[1]))
        IN  /\ result.daysWorkedCount =
                  Cardinality({z \in days : WorkedOn(records, z) > 0})
            /\ result.totalBreak = BreakSum(records, days)

\* a day that holds a break pair and nothing else
C11_Witness ==
    /\ op = "monthly"
    /\ result.daysWorkedCount = 0
    /\ result.totalBreak > 0
    /\ \E z \in MonthDays(args[1]) :
        /\ Cardinality(OnDay(records, z)) = 2
        /\ {records[i].type : i \in OnDay(records, z)} = {BREAK_START, BREAK_END}
        /\ BreakOn(records, z) > 0

\* a day that holds a lone ENTRY, next to a worked day
C11_WitnessLoneEntry ==
    /\ op = "monthly"
    /\ result.daysWorkedCount = 1
    /\ \E z \in MonthDays(args[1]) :
        /\ Cardinality(OnDay(records, z)) = 1
        /\ {records[i].type : i \in OnDay(records, z)} = {ENTRY}

\* some day of Z holds an ENTRY or BREAK_END and, later on that same day, an
\* EXIT or BREAK_START
PairWithinADay(rs, Z) ==
    \E z \in Z : \E i, j \in OnDay(rs, z) :
        /\ rs[i].type \in Openers
        /\ rs[j].type \in Closers
        /\ rs[i].timestamp < rs[j].timestamp

\* C12: records of different local days are never paired: totalWorked is the
\* sum of the totals of the days of the month, each computed from the records
\* of that date alone, so that a month in which no day holds both an opening
\* punch and a later closing punch (an ENTRY late on day d and an EXIT early on
\* day d + 1) has totalWorked = 0 and no day counted as worked.
C12_NoPairingAcrossDays ==
    op = "monthly" =>
        LET days == Busy(records, MonthDays(args[1]))
        IN  /\ result.totalWorked = WorkedSum(records, days)
            /\ ~PairWithinADay(records, days) =>
                  (result.totalWorked = 0 /\ result.daysWorkedCount = 0)

\* an ENTRY in the last minute drawn of a day, an EXIT in the first minute drawn
\* of the next day of the same month
C12_Witness ==
    /\ op = "monthly"
    /\ Len(records) = 2
    /\ records[2].type = ENTRY
    /\ records[1].type = EXIT
    /\ EpochDay(records[1].timestamp) = EpochDay(records[2].timestamp) + 1
    /\ {EpochDay(records[1].timestamp), EpochDay(records[2].timestamp)}
            \subseteq MonthDays(args[1])
    /\ result.totalWorked = 0
    /\ result.daysWorkedCount = 0

\* the minutes a formatted total stands for
readableToMinutes(t) ==
    (IF t.sign = "-" THEN 0 - 1 ELSE 1) * (t.hours * 60 + t.minutes)

\* the sum of the totals of rows 1..n
RECURSIVE RowsTotal(_, _)
RowsTotal(rows, n) ==
    IF n = 0 THEN 0
    ELSE readableToMinutes(rows[n].totalHoras) + RowsTotal(rows, n - 1)

\* the reference dates that lie in month t[1] of year t[2]
RefDatesIn(t) == {d \in RefDates : getMonth(d) = t[1] /\ getFullYear(d) = t[2]}

\* C13: the daily totals of the rows groupRecordsByDay builds for a month sum to
\* the totalWorked calculateMonthlyStats returns for a reference date of that
\* month, whatever the daily workload.
C13_RowsSumToMonthlyTotal ==
    op = "group" =>
        \A d \in RefDatesIn(args) : \A w \in Workloads :
            RowsTotal(result, Len(result))
                = calculateMonthlyStats(records, d, w).totalWorked

\* worked time in the target month and in the month before it
C13_Witness ==
    /\ op = "group"
    /\ args = <<0, 1970>>
    /\ RefDatesIn(args) # {}
    /\ RowsTotal(result, Len(result)) = 1
    /\ \E i \in DOMAIN result : result[i].saida # EmptyCell
    /\ WorkedOn(records, 0 - 1) > 0

-----------------------------------------------------------------------------
(* Properties of groupRecordsByDay, under SpecRows *)

\* a year of the Gregorian calendar with a 29 February
LeapYear(y) == (y % 4 = 0 /\ y % 100 # 0) \/ y % 400 = 0

\* the length of month m (0-based) of year y, by the calendar's rule
MonthLength(m, y) ==
    IF m = 1 THEN (IF LeapYear(y) THEN 29 ELSE 28)
    ELSE IF m \in {3, 5, 8, 10} THEN 30 ELSE 31

\* C14: groupRecordsByDay returns exactly one row per day of the target month
\* (28 to 31 rows, 29 for February of a leap year), the day fields being
\* 1, 2, ... in ascending order, for every array, the empty one and the arrays
\* with no record in the target month included.
C14_OneRowPerDayOfMonth ==
    op = "group" =>
        /\ DOMAIN result = 1..MonthLength(args[1], args[2])
        /\ \A i \in DOMAIN result : result[i].day = i
        /\ Len(result) \in 28..31

\* February of a leap year, asked for a profile that has records elsewhere
C14_Witness ==
    /\ op = "group"
    /\ args = <<1, 1972>>
    /\ Len(result) = 29
    /\ Len(records) > 0
    /\ \A i \in DOMAIN result : result[i].entrada = EmptyCell

C14_WitnessEmpty ==
    /\ op = "group"
    /\ Len(records) = 0
    /\ Len(result) = 28

C14_WitnessThirty ==
    /\ op = "group"
    /\ Len(result) = 30

\* the cell of a row that belongs to a type
CellOf(row, type) ==
    CASE type = ENTRY -> row.entrada
      [] type = BREAK_START -> row.almocoSaida
      [] type = BREAK_END -> row.almocoVolta
      [] type = EXIT -> row.saida

\* the timestamps of the records of rs of the type on day i of month t
StampsOfTypeOn(rs, type, i, t) ==
    {rs[k].timestamp : k \in {j \in 1..Len(rs) :
        /\ rs[j].type = type
        /\ EpochDay(rs[j].timestamp) = DaysFromCivil(t[2], t[1], 1) + (i - 1)}}

Least(S) == CHOOSE x \in S : \A y \in S : x <= y

\* C15: each of the four cells of a row shows the earliest record of its type
\* on that date, whatever the other types hold, and is empty exactly when the
\* day has no record of the type; ENTRY 08:00, ENTRY 09:00, EXIT 17:00 show
\* entrada 08:00 and saida 17:00 next to a total of 8h 0m.
C15_CellsShowEarliestOfType ==
    /\ op = "group" =>
        \A i \in DOMAIN result : \A type \in PunchType :
            LET S == StampsOfTypeOn(records, type, i, args)
            IN  /\ (CellOf(result[i], type) = EmptyCell) <=> (S = {})
                /\ S # {} => CellOf(result[i], type) = toLocaleTimeHM(Least(S))
    /\ (op = "group" /\ args = <<0, 1970>>
                      /\ records = WithIds(TwoEntriesDay, Len(TwoEntriesDay)))
            => /\ result[1].entrada = <<8, 0>>
               /\ result[1].saida = <<17, 0>>
               /\ result[1].totalHoras = [sign |-> "", hours |-> 8, minutes |-> 0]

C15_Witness ==
    /\ op = "group"
    /\ Len(records) = 3
    /\ result[1].entrada = <<8, 0>>
    /\ result[1].almocoSaida = EmptyCell
    /\ result[1].totalHoras.hours = 8

\* two punches of one type on one day, in different minutes
C15_WitnessDuplicate ==
    /\ op = "group"
    /\ Len(records) = 2
    /\ records[1].type = records[2].type
    /\ \E i \in DOMAIN result :
            CellOf(result[i], records[1].type) = toLocaleTimeHM(records[2].timestamp)
    /\ toLocaleTimeHM(records[1].timestamp) # toLocaleTimeHM(records[2].timestamp)

-----------------------------------------------------------------------------
(* Properties of the App's handlers, under SpecApp *)

\* C17: when the outbound call fails, the promise of getAIReview is fulfilled,
\* not rejected, with the fixed fallback text, and generateAIReview stores
\* that text as the review on display and enables the button again.
C17_CallFailureGivesFallback ==
    op = "requestFails" =>
        /\ promise = [state |-> "fulfilled", value |-> Fallback]
        /\ aiReview = Text(Fallback)
        /\ ~isLoadingAI

\* the second request of a profile fails after the first was answered
C17_Witness ==
    /\ op = "requestFails"
    /\ Len(records) > 0
    /\ sent = 2
    /\ inFlight = 0
    /\ aiReview = Text(Fallback)

\* C18: a click on the generate button with records in the collection sends
\* exactly one request, a click with an empty collection sends none, and at
\* most one request is in flight at any time.
C18_OneRequestPerAction ==
    [][/\ (op' = "generateAIReview" /\ Len(records) > 0)
            => (sent' = sent + 1 /\ inFlight' = inFlight + 1)
       /\ (op' = "generateAIReview" /\ Len(records) = 0) => sent' = sent
       /\ inFlight' <= 1]_vars

\* the inputs of a manual entry the handler has to turn down
Unreadable(manualDate, manualTime) ==
    \/ manualDate = EmptyField
    \/ manualTime = EmptyField
    \/ isNaN(parseDateTime(manualDate, manualTime))

\* C19: a manual entry with an empty date, an empty time or a date-time that
\* does not parse leaves the collection of the profile as it was.
C19_RejectedManualEntryAddsNothing ==
    [][(op' = "handleManualEntry" /\ Unreadable(args'[1], args'[2]))
            => records' = records]_vars

\* a date-time that does not parse, turned down with records in the collection
C19_Witness ==
    /\ op = "handleManualEntry"
    /\ args[1] # EmptyField
    /\ args[2] # EmptyField
    /\ Unreadable(args[1], args[2])
    /\ result = InvalidDateOrTime
    /\ Len(records) > 0

C19_WitnessEmptyField ==
    /\ op = "handleManualEntry"
    /\ args[1] = EmptyField
    /\ result = FillDateAndTime
    /\ Len(records) > 0

\* new is old with one record put in somewhere, the others as they were and in
\* the order they were
AddsOne(old, new) ==
    /\ Len(new) = Len(old) + 1
    /\ \E k \in 1..Len(new) :
        old = [i \in 1..Len(old) |-> IF i < k THEN new[i] ELSE new[i + 1]]

\* C20: every step of handlePunch, handleManualEntry and clearHistory leaves
\* the collection as it was, adds one record to it without touching the id,
\* timestamp or type of the others, or (confirmed clear) empties it.
C20_OnlyAddOrClear ==
    [][\/ records' = records
       \/ /\ op' \in {"handlePunch", "handleManualEntry"}
          /\ AddsOne(records, records')
       \/ /\ op' = "clearHistory"
          /\ args' = <<TRUE>>
          /\ records' = <<>>]_vars

\* a punch filed behind a record of a later time
C20_Witness ==
    /\ op = "handlePunch"
    /\ Len(records) = 2
    /\ records[1].timestamp > records[2].timestamp
    /\ records[1].id # toString(now)
    /\ records[2].id = toString(now)

C20_WitnessCleared ==
    /\ op = "clearHistory"
    /\ args = <<TRUE>>
    /\ records = <<>>
    /\ sent > 0

-----------------------------------------------------------------------------
(* Properties of the pending slots and of the sums, under SpecDaily *)

\* no two records of rs carry the same timestamp, and no timestamp is before
\* the epoch: timestamp 0 is allowed
DistinctFromEpoch(rs) ==
    /\ \A i, j \in 1..Len(rs) : rs[i].timestamp = rs[j].timestamp => i = j
    /\ \A i \in 1..Len(rs) : rs[i].timestamp >= 0

\* C27: a pending slot counts as set exactly when an earlier record assigned
\* it and no later record cleared it, whatever the timestamp: also with a
\* record at timestamp 0, calculateDailyHours returns what the design's state
\* machine returns, so an ENTRY at 0 closed by an EXIT at t adds t / 60000.
C27_SlotSetWhateverTimestamp ==
    (op = "daily" /\ DistinctFromEpoch(records) /\ TypesOf(records) \subseteq PunchType)
        => result = TableResult(RecordSet(records))

\* the distance in time between the earliest and the latest record of rs
SpanOf(rs) ==
    LET ts == Timestamps(rs)
    IN  (CHOOSE hi \in ts : \A t \in ts : t <= hi)
            - (CHOOSE lo \in ts : \A t \in ts : lo <= t)

\* C28: calculateDailyHours returns total >= 0 and break >= 0, and each of
\* the two, taken alone, is at most the distance between the earliest and the
\* latest record.
C28_EachSumWithinTheDay ==
    op = "daily" =>
        /\ result.total >= 0
        /\ result.break >= 0
        /\ Len(records) = 0 => result = Zero
        /\ Len(records) > 0 =>
            /\ result.total * MsPerMinute <= SpanOf(records)
            /\ result.break * MsPerMinute <= SpanOf(records)

\* work before and after a break fills the whole distance but the break
C28_Witness ==
    /\ op = "daily"
    /\ Len(records) = 4
    /\ result.total > 0
    /\ result.break > 0
    /\ (result.total + result.break) * MsPerMinute = SpanOf(records)

\* one work interval from the earliest to the latest record
C28_WitnessWholeSpan ==
    /\ op = "daily"
    /\ Len(records) >= 3
    /\ result.total > 0
    /\ result.total * MsPerMinute = SpanOf(records)

-----------------------------------------------------------------------------
(* Properties of the record list and of the review, under SpecApp; C26 under
   SpecExport *)

\* C21: no two records of the profile's collection have the same id, also when
\* two of them were made within the same clock millisecond.
C21_IdsUnique ==
    \A i, j \in 1..Len(records) : records[i].id = records[j].id => i = j

\* C24: after a confirmed clearHistory aiReview stays null until a request
\* started after the clear completes; in particular the request that was in
\* flight at the moment of the clear, settling as the next event, leaves
\* aiReview null.
C24_NoReviewOfEarlierHistory ==
    [][(op = "clearHistory" /\ args = <<TRUE>>
            /\ op' \in {"requestSucceeds", "requestFails"})
        => aiReview' = Null]_vars

\* C25: once the promise of getAIReview has settled, fulfilled or rejected at
\* any of its steps, isLoadingAI is false again and the generate button is
\* enabled.
C25_LoadingEndsWithTheRequest ==
    promise.state \in {"fulfilled", "rejected"} => ~isLoadingAI

\* the greatest timestamp of rs
Newest(rs) == CHOOSE t \in Timestamps(rs) : \A u \in Timestamps(rs) : u <= t

\* C26: the stored collection is sorted by timestamp descending, renders and
\* exports leave it so, and the month and year an export takes from records[0]
\* are those of the record with the greatest timestamp.
C26_NewestFirstForExports ==
    /\ \A i, j \in 1..Len(records) :
            i < j => records[i].timestamp >= records[j].timestamp
    /\ (op \in {"exportToCSV", "exportToPDF"} /\ Len(records) > 0) =>
            args = <<getMonth(Newest(records)), getFullYear(Newest(records))>>

\* a CSV export of a list whose records are of two months
C26_Witness ==
    /\ op = "exportToCSV"
    /\ Len(records) = 2
    /\ records[1].timestamp > 0
    /\ records[2].timestamp < 0
    /\ args = <<0, 1970>>

\* a PDF export after a render, the older record punched and the newer one
\* entered by hand
C26_WitnessManualNewest ==
    /\ op = "exportToPDF"
    /\ Len(records) = 2
    /\ records[1].timestamp = MsPerMinute
    /\ records[2].timestamp = 1

-----------------------------------------------------------------------------
(* Properties of the reminders, under SpecTimer *)

\* the minute of the clock at ts: the same HH:MM of the same day
minuteOf(ts) == ts \div MsPerMinute

scheduledTimes(schedule) ==
    {schedule.start, schedule.breakStart, schedule.breakEnd, schedule.end}

\* C29: at most one notification per clock minute: a notification is never
\* sent in the minute in which the notification before it was sent.
C29_OneNotificationPerMinute ==
    [][(notified' # notified /\ notified # Null)
        => minuteOf(notified'[1]) # minuteOf(notified[1])]_vars

\* a later run of the callback in the minute of a reminder, all four times of
\* the schedule being that minute
C29_Witness ==
    /\ notified # Null
    /\ now > notified[1]
    /\ minuteOf(now) = minuteOf(notified[1])
    /\ settings.schedule.enabled
    /\ permission = "granted"
    /\ scheduledTimes(settings.schedule) = {toLocaleTimeString(now)}

\* the reminder of 12:00 after the reminder of 09:00
C29_WitnessNextReminder ==
    /\ notified # Null
    /\ notified[1] = Clock(1, 12, 0)
    /\ now > notified[1]

\* C30: with reminders enabled and permission granted, the run of the callback
\* with which the clock enters a minute equal to one of the four scheduled
\* times sends a notification, on every day and for every schedule.
C30_ReminderInEveryScheduledMinute ==
    [][(/\ minuteOf(now') # minuteOf(now)
        /\ settings.schedule.enabled
        /\ permission = "granted"
        /\ toLocaleTimeString(now') \in scheduledTimes(settings.schedule))
        => (notified' # Null /\ minuteOf(notified'[1]) = minuteOf(now'))]_vars

-----------------------------------------------------------------------------
(* Properties of the profiles and of their store, under SpecProfiles *)

\* Number(id): the number an id reads as
RECURSIVE toNumber(_)
toNumber(digits) ==
    IF digits = <<>> THEN 0
    ELSE 10 * toNumber(SubSeq(digits, 1, Len(digits) - 1)) + digits[Len(digits)]

\* the records stored under the key of profile id
StoredRecords(id) ==
    IF RecordsKey(id) \in DOMAIN localStorage
    THEN RecordSet(parseRecords(localStorage[RecordsKey(id)]))
    ELSE {}

\* the profiles whose settings are stored
WithSettings == {id \in IdsOf(profiles) : SettingsKey(id) \in DOMAIN localStorage}

StoredUserName(id) == parseSettings(localStorage[SettingsKey(id)]).userName

\* C22: each profile exclusively owns its persisted data, in every state
\* between the steps of the effects: the records stored under a profile's key
\* were created while that profile was active, so none of them carries an id,
\* the clock reading of its creation, earlier than the id of the profile, the
\* clock reading of the profile's creation; and the settings stored under its
\* key are its own, so no two profiles, created under different names, have
\* settings of the same user name stored.
C22_ProfileOwnsItsBlobs ==
    /\ \A id \in IdsOf(profiles) :
            \A r \in StoredRecords(id) : toNumber(r.id) >= toNumber(id)
    /\ \A id, other \in WithSettings :
            StoredUserName(id) = StoredUserName(other) => id = other

\* C23: a switch from profile A to profile B and back, with no other action in
\* between, leaves A's records and settings in memory, the stored records and
\* settings of both and the names in the profile list as they were before the
\* first switch, once all effects have run.
C23_SwitchAndBackRestores ==
    (op = "switchProfile" /\ again /\ Quiet) => View = first

\* back in a profile that holds a record, after a visit to one created under
\* another name
C23_Witness ==
    /\ op = "switchProfile"
    /\ again
    /\ Quiet
    /\ Len(records) > 0
    /\ Len(profiles) = 2
    /\ profiles[1].name # profiles[2].name
    /\ currentUserId = profiles[1].id

\* back in the second profile, which holds a record of its own as the first
\* one does
C23_WitnessBothHoldRecords ==
    /\ op = "switchProfile"
    /\ again
    /\ Quiet
    /\ Len(profiles) = 2
    /\ currentUserId = profiles[2].id
    /\ Len(records) > 0
    /\ StoredRecords(profiles[1].id) # {}

=============================================================================
